---- MODULE Spec2Model ----
(***************************************************************************)
(* Model of src/app.py: a Streamlit chat UI over a remote chat-completion  *)
(* model with per-session JSON persistence.                                *)
(*                                                                         *)
(* One script run of main() is one action: Streamlit re-executes main()    *)
(* from the top for every user interaction, and st.rerun() restarts it.    *)
(* st.session_state is the state that survives between runs; the folder    *)
(* chat_histories is the state that survives on disk.                      *)
(*                                                                         *)
(* Text is a sequence of atomic fragments (strings); concatenation of      *)
(* Python strings is \o.  The file system is assumed to accept writes      *)
(* (the except branch of save_chat_history, lines 236-238, is the          *)
(* environment refusing the write and is not part of the model).           *)
(***************************************************************************)
EXTENDS Integers, Sequences, FiniteSets, TLC

VARIABLES
    messages,            \* st.session_state.messages
    chat_sessions,       \* st.session_state.chat_sessions
    current_session_id,  \* st.session_state.current_session_id
    model_name,          \* st.session_state.model_name
    total_tokens_used,   \* st.session_state.total_tokens_used
    total_queries,       \* st.session_state.total_queries
    api_key,             \* TRUE once st.session_state.api_key is set
    files,               \* chat_histories/<id>.json, per session id
    clock,               \* datetime.now() at one-second resolution
    errors,              \* the st.error notifications of the last script run
    request,             \* the message list of the last chat_model.stream call
    last,                \* history: the operation the last script run handled
    saved,               \* history: the turn list last written per session id
    handled              \* history: number of prompts handled so far

vars == <<messages, chat_sessions, current_session_id, model_name,
          total_tokens_used, total_queries, api_key, files, clock, errors,
          request, last, saved, handled>>

----------------------------------------------------------------------------
(* Bounds of the model.                                                    *)

MaxClock == 2
MaxPrompts == 2

(* Program constants.                                                      *)

HistoryWindow == 5
TitleLen == 50
SystemPromptWords == 40

StartTime == 1
SessionIds == 0..MaxClock

\* the selectbox of the sidebar is left at its default: the model name
\* only labels the metadata of the assistant turns
DEFAULT_MODEL == "sonar-deep-research"

Min(a, b) == IF a < b THEN a ELSE b
Max(a, b) == IF a < b THEN b ELSE a

----------------------------------------------------------------------------
(* Text.  The two literal markers are single fragments.                    *)

OpenMarker == "<think>"
CloseMarker == "</think>"
Whitespace == {" "}

SystemPrompt == <<"You are an advanced research assistant">>

RECURSIVE Concat(_)
Concat(chunks) ==
    IF chunks = <<>> THEN <<>> ELSE Head(chunks) \o Concat(Tail(chunks))

\* len(text.split()): the number of maximal runs of non-whitespace
RECURSIVE WordCount(_)
WordCount(text) ==
    IF text = <<>> THEN 0
    ELSE IF Head(text) \in Whitespace THEN WordCount(Tail(text))
    ELSE IF Len(text) >= 2 /\ text[2] \notin Whitespace THEN WordCount(Tail(text))
    ELSE 1 + WordCount(Tail(text))

----------------------------------------------------------------------------
(* JSON.  A document is a sequence of tokens: punctuation, numbers, free   *)
(* text strings ("s") and identifier-like strings ("id": object keys,      *)
(* role and model names).  Indentation is insignificant and left out.      *)

P(c) == [k |-> "p", v |-> c]
S(t) == [k |-> "s", v |-> t]
K(a) == [k |-> "id", v |-> a]
N(n) == [k |-> "n", v |-> n]

IsP(tok, c) == tok.k = "p" /\ tok.v = c

DumpMetadata(md) ==
    << P("{"), K("time_taken"), P(":"), N(md.time_taken), P(","),
       K("tokens"), P(":"), N(md.tokens), P(","),
       K("timestamp"), P(":"), N(md.timestamp), P(","),
       K("model"), P(":"), K(md.model), P("}") >>

\* mutant: the metadata of a turn is not written
DumpTurn_NoMetadata(m) ==
    << P("{"), K("role"), P(":"), K(m.role), P(","),
       K("content"), P(":"), S(m.content), P("}") >>

DumpTurn(m) ==
    << P("{"), K("role"), P(":"), K(m.role), P(","),
       K("content"), P(":"), S(m.content) >>
    \o (IF "metadata" \in DOMAIN m
        THEN << P(","), K("metadata"), P(":") >> \o DumpMetadata(m.metadata)
        ELSE <<>>)
    \o << P("}") >>

RECURSIVE DumpTurns(_)
DumpTurns(msgs) ==
    IF msgs = <<>> THEN <<>>
    ELSE IF Len(msgs) = 1 THEN DumpTurn(msgs[1])
    ELSE DumpTurn(Head(msgs)) \o << P(",") >> \o DumpTurns(Tail(msgs))

\* json.dump(messages, f, indent=4)
json_dump(msgs) == << P("[") >> \o DumpTurns(msgs) \o << P("]") >>

ParseFail == [ok |-> FALSE, val |-> <<>>, next |-> 0]
ParseOk(v, n) == [ok |-> TRUE, val |-> v, next |-> n]

RECURSIVE ParseValue(_, _), ParseArray(_, _, _), ParseObject(_, _, _)

ParseValue(t, i) ==
    IF i > Len(t) THEN ParseFail
    ELSE IF t[i].k # "p" THEN ParseOk(t[i].v, i + 1)
    ELSE IF t[i].v = "[" THEN
        IF i + 1 <= Len(t) /\ IsP(t[i + 1], "]") THEN ParseOk(<<>>, i + 2)
        ELSE ParseArray(t, i + 1, <<>>)
    ELSE IF t[i].v = "{" THEN
        IF i + 1 <= Len(t) /\ IsP(t[i + 1], "}") THEN ParseOk(<<>>, i + 2)
        ELSE ParseObject(t, i + 1, <<>>)
    ELSE ParseFail

ParseArray(t, i, acc) ==
    LET e == ParseValue(t, i) IN
    IF ~e.ok \/ e.next > Len(t) THEN ParseFail
    ELSE IF IsP(t[e.next], ",") THEN ParseArray(t, e.next + 1, Append(acc, e.val))
    ELSE IF IsP(t[e.next], "]") THEN ParseOk(Append(acc, e.val), e.next + 1)
    ELSE ParseFail

ParseObject(t, i, acc) ==
    IF i + 1 > Len(t) \/ t[i].k # "id" \/ ~IsP(t[i + 1], ":") THEN ParseFail
    ELSE LET e == ParseValue(t, i + 2) IN
         IF ~e.ok \/ e.next > Len(t) THEN ParseFail
         ELSE IF IsP(t[e.next], ",")
              THEN ParseObject(t, e.next + 1, (t[i].v :> e.val) @@ acc)
         ELSE IF IsP(t[e.next], "}")
              THEN ParseOk((t[i].v :> e.val) @@ acc, e.next + 1)
         ELSE ParseFail

\* json.load(f): one value, then end of input
json_load(t) ==
    LET r == ParseValue(t, 1) IN
    IF r.ok /\ r.next = Len(t) + 1 THEN r ELSE ParseFail

----------------------------------------------------------------------------
(* Chat history and session management.                                    *)

NoFile == [exists |-> FALSE, content |-> <<>>, mtime |-> 0]

\* mutant: only the newest request/response pair is written
save_chat_history_Delta(fs, msgs, session_id, t) ==
    [fs EXCEPT ![session_id] =
        [exists |-> TRUE,
         content |-> json_dump(SubSeq(msgs, Max(1, Len(msgs) - 1), Len(msgs))),
         mtime |-> t]]

\* with open(path, "w"): json.dump(...)
save_chat_history(fs, msgs, session_id, t) ==
    [fs EXCEPT ![session_id] =
        [exists |-> TRUE, content |-> json_dump(msgs), mtime |-> t]]

\* mutant: a missing file is reported like any other failure
load_chat_history_Noisy(fs, session_id) ==
    IF ~fs[session_id].exists
    THEN [value |-> <<>>, error |-> TRUE]
    ELSE LET r == json_load(fs[session_id].content) IN
         IF r.ok THEN [value |-> r.val, error |-> FALSE]
         ELSE [value |-> <<>>, error |-> TRUE]

\* mutant: the oldest turn of the file is lost on the way in
load_chat_history_DropFirst(fs, session_id) ==
    IF ~fs[session_id].exists
    THEN [value |-> <<>>, error |-> FALSE]
    ELSE LET r == json_load(fs[session_id].content) IN
         IF r.ok THEN [value |-> SubSeq(r.val, 2, Len(r.val)), error |-> FALSE]
         ELSE [value |-> <<>>, error |-> TRUE]

\* value: the returned list; error: whether st.error was called
load_chat_history(fs, session_id) ==
    IF ~fs[session_id].exists
    THEN [value |-> <<>>, error |-> FALSE]          \* FileNotFoundError
    ELSE LET r == json_load(fs[session_id].content) IN
         IF r.ok THEN [value |-> r.val, error |-> FALSE]
         ELSE [value |-> <<>>, error |-> TRUE]      \* except Exception

FirstUser(msgs) ==
    LET users == {i \in 1..Len(msgs) : msgs[i].role = "user"} IN
    IF users = {} THEN 0 ELSE CHOOSE i \in users : \A j \in users : i <= j

SessionTitle(msgs) ==
    IF FirstUser(msgs) = 0 THEN <<"Untitled Chat">>
    ELSE LET c == msgs[FirstUser(msgs)].content IN
         SubSeq(c, 1, Min(Len(c), TitleLen))

\* one entry per file that parses to a non-empty list; corrupt files are
\* skipped without a notification
get_chat_sessions(fs) ==
    LET parsed == [s \in SessionIds |->
                     IF fs[s].exists THEN json_load(fs[s].content) ELSE ParseFail]
        listed == {s \in SessionIds : parsed[s].ok /\ parsed[s].val # <<>>}
    IN  [s \in listed |->
            [id |-> s,
             title |-> SessionTitle(parsed[s].val),
             timestamp |-> fs[s].mtime,
             message_count |-> Len(parsed[s].val)]]

----------------------------------------------------------------------------
(* Model and API interaction.                                              *)

\* seq[-n:]
LastN(seq, n) == SubSeq(seq, Max(1, Len(seq) - n + 1), Len(seq))

\* HumanMessage / AIMessage for the turns with a known role, others skipped
RECURSIVE ToLangchain(_)
ToLangchain(history) ==
    IF history = <<>> THEN <<>>
    ELSE LET m == Head(history) IN
         (IF m.role \in {"user", "assistant"}
          THEN << [role |-> m.role, content |-> m.content] >>
          ELSE <<>>) \o ToLangchain(Tail(history))

\* mutant: the system message is not inserted
BuildRequest_NoSystem(prompt, history) ==
    ToLangchain(LastN(history, HistoryWindow))
    \o << [role |-> "user", content |-> prompt] >>

\* lines 322-337: the message list handed to chat_model.stream
BuildRequest(prompt, history) ==
    << [role |-> "system", content |-> SystemPrompt] >>
    \o ToLangchain(LastN(history, HistoryWindow))
    \o << [role |-> "user", content |-> prompt] >>

MsgWords(m) ==
    IF m.role = "system" THEN SystemPromptWords ELSE WordCount(m.content)

RECURSIVE SumWords(_)
SumWords(msgs) ==
    IF msgs = <<>> THEN 0 ELSE MsgWords(Head(msgs)) + SumWords(Tail(msgs))

\* int(sum(len(words) * 1.3) + len(words) * 1.3), in exact arithmetic
EstimateTokens(req, full_response) ==
    (13 * (SumWords(req) + WordCount(full_response))) \div 10

NoError == "none"
ErrorText(e) == <<"I encountered an error: ", e>>

\* The splitter the specification describes: the text from the opening
\* marker through the closing marker is the thinking segment, the trimmed
\* rest after the closing marker is the answer.
FirstIndex(text, x) ==
    LET at == {i \in 1..Len(text) : text[i] = x} IN
    IF at = {} THEN 0 ELSE CHOOSE i \in at : \A j \in at : i <= j

RECURSIVE Trim(_)
Trim(text) ==
    IF text = <<>> THEN <<>>
    ELSE IF Head(text) \in Whitespace THEN Trim(Tail(text))
    ELSE IF text[Len(text)] \in Whitespace THEN Trim(SubSeq(text, 1, Len(text) - 1))
    ELSE text

MarkersInOrder(text) ==
    /\ FirstIndex(text, OpenMarker) > 0
    /\ FirstIndex(text, CloseMarker) > FirstIndex(text, OpenMarker)

SplitThinking(text) ==
    IF MarkersInOrder(text)
    THEN [thinking |-> SubSeq(text, FirstIndex(text, OpenMarker),
                              FirstIndex(text, CloseMarker)),
          answer |-> Trim(SubSeq(text, FirstIndex(text, CloseMarker) + 1,
                                 Len(text)))]
    ELSE [thinking |-> <<>>, answer |-> text]

\* mutant: the text streamed so far is returned when the call fails
process_chat_Partial(prompt, history, outcome, elapsed) ==
    [content |-> Concat(outcome.chunks),
     time_taken |-> IF outcome.error = NoError THEN elapsed ELSE 0,
     tokens |-> IF outcome.error = NoError
                THEN EstimateTokens(BuildRequest(prompt, history),
                                    Concat(outcome.chunks))
                ELSE 0,
     queries |-> IF outcome.error = NoError THEN 1 ELSE 0,
     error |-> outcome.error # NoError,
     escaped |-> FALSE,
     request |-> BuildRequest(prompt, history)]

\* mutant: only the answer segment of the response is returned
process_chat_Split(prompt, history, outcome, elapsed) ==
    [content |-> IF outcome.error = NoError
                 THEN SplitThinking(Concat(outcome.chunks)).answer
                 ELSE ErrorText(outcome.error),
     time_taken |-> IF outcome.error = NoError THEN elapsed ELSE 0,
     tokens |-> IF outcome.error = NoError
                THEN EstimateTokens(BuildRequest(prompt, history),
                                    Concat(outcome.chunks))
                ELSE 0,
     queries |-> IF outcome.error = NoError THEN 1 ELSE 0,
     error |-> outcome.error # NoError,
     escaped |-> FALSE,
     request |-> BuildRequest(prompt, history)]

\* mutant: the failure is turned into a reply without st.error
process_chat_NoReport(prompt, history, outcome, elapsed) ==
    [content |-> IF outcome.error = NoError
                 THEN Concat(outcome.chunks)
                 ELSE ErrorText(outcome.error),
     time_taken |-> IF outcome.error = NoError THEN elapsed ELSE 0,
     tokens |-> IF outcome.error = NoError
                THEN EstimateTokens(BuildRequest(prompt, history),
                                    Concat(outcome.chunks))
                ELSE 0,
     queries |-> IF outcome.error = NoError THEN 1 ELSE 0,
     error |-> FALSE,
     escaped |-> FALSE,
     request |-> BuildRequest(prompt, history)]

process_chat_Uncaught(prompt, history, outcome, elapsed) ==
    [content |-> IF outcome.error = NoError
                 THEN Concat(outcome.chunks)
                 ELSE ErrorText(outcome.error),
     time_taken |-> IF outcome.error = NoError THEN elapsed ELSE 0,
     tokens |-> IF outcome.error = NoError
                THEN EstimateTokens(BuildRequest(prompt, history),
                                    Concat(outcome.chunks))
                ELSE 0,
     queries |-> IF outcome.error = NoError THEN 1 ELSE 0,
     error |-> FALSE,
     escaped |-> outcome.error # NoError,
     request |-> BuildRequest(prompt, history)]

process_chat_CountFailed(prompt, history, outcome, elapsed) ==
    [content |-> IF outcome.error = NoError
                 THEN Concat(outcome.chunks)
                 ELSE ErrorText(outcome.error),
     time_taken |-> IF outcome.error = NoError THEN elapsed ELSE 0,
     tokens |-> EstimateTokens(BuildRequest(prompt, history),
                               Concat(outcome.chunks)),
     queries |-> 1,
     error |-> outcome.error # NoError,
     escaped |-> FALSE,
     request |-> BuildRequest(prompt, history)]

\* outcome.chunks: the chunks the stream delivered; outcome.error: the
\* exception the remote call raised after them, or NoError.
\* error: st.error was called; escaped: an exception left the function
\* (never: the try of line 320 spans the body and catches Exception)
process_chat(prompt, history, outcome, elapsed) ==
    LET req == BuildRequest(prompt, history)
        full_response == Concat(outcome.chunks)
    IN  IF outcome.error = NoError
        THEN [content |-> full_response,
              time_taken |-> elapsed,
              tokens |-> EstimateTokens(req, full_response),
              queries |-> 1,
              error |-> FALSE,
              escaped |-> FALSE,
              request |-> req]
        ELSE [content |-> ErrorText(outcome.error),
              time_taken |-> 0,
              tokens |-> 0,
              queries |-> 0,
              error |-> TRUE,
              escaped |-> FALSE,
              request |-> req]

----------------------------------------------------------------------------
(* Inputs.                                                                 *)

Prompts == { <<"q1">>, <<"q2", " ", "more">> }

Responses ==
    { << <<"a", " ">>, <<"b">> >>,
      << <<OpenMarker, "t">>, <<CloseMarker, " ">>, <<"b", " ">> >> }

Errors == {"timeout"}

Elapsed == {2}

\* the stream delivers a whole response, or raises before the first chunk
\* or after some chunks
Outcomes ==
    {[chunks |-> r, error |-> NoError] : r \in Responses}
    \cup {[chunks |-> SubSeq(r, 1, k), error |-> e] :
            r \in {x \in Responses : Len(x) = 3}, k \in {0, 2}, e \in Errors}

UserTurn(c) == [role |-> "user", content |-> c]

AssistantTurn(c, tt, tok, ts, mn) ==
    [role |-> "assistant", content |-> c,
     metadata |-> [time_taken |-> tt, tokens |-> tok,
                   timestamp |-> ts, model |-> mn]]

\* a conversation written by an earlier run of the program
OldTurns ==
    << UserTurn(<<"q0">>),
       AssistantTurn(<<"a0">>, 1, 54, 0, DEFAULT_MODEL),
       UserTurn(<<"q1">>),
       AssistantTurn(ErrorText("timeout"), 0, 0, 0, DEFAULT_MODEL),
       UserTurn(<<"q2", " ", "more">>),
       AssistantTurn(<<"a", " ", "b">>, 3, 66, 0, DEFAULT_MODEL) >>

OldFile(msgs, cut) ==
    [exists |-> TRUE,
     content |-> SubSeq(json_dump(msgs), 1, Len(json_dump(msgs)) - cut),
     mtime |-> 0]

\* what chat_histories may hold for session 0 when the app starts: nothing,
\* a conversation, or a file whose write was cut short
InitialFiles == { NoFile, OldFile(OldTurns, 0), OldFile(OldTurns, 3) }

\* what the transcript shows for each turn: the content as stored, whole,
\* and the metadata line of an assistant turn (lines 399-417)
display_chat_history(msgs) ==
    [i \in 1..Len(msgs) |->
        [avatar |-> IF msgs[i].role = "user" THEN "user" ELSE "assistant",
         text |-> msgs[i].content,
         meta |-> msgs[i].role # "user" /\ "metadata" \in DOMAIN msgs[i]]]

----------------------------------------------------------------------------
(* main(): one script run per interaction.                                 *)

\* lines 579-581, after the api-key check of lines 572-574
LoadCurrent(key, msgs, fs, sid) ==
    IF key /\ msgs = <<>> THEN load_chat_history(fs, sid)
    ELSE [value |-> msgs, error |-> FALSE]

ErrorSet(tag, b) == IF b THEN {tag} ELSE {}

Without(f, s) == [x \in DOMAIN f \ {s} |-> f[x]]

Init ==
    /\ \E f \in InitialFiles :
        /\ files = [s \in SessionIds |-> IF s = 0 THEN f ELSE NoFile]
        /\ saved = IF f.exists /\ json_load(f.content).ok
                   THEN (0 :> json_load(f.content).val) ELSE <<>>
    /\ messages = <<>>
    /\ chat_sessions = get_chat_sessions(files)
    /\ clock = StartTime
    /\ current_session_id = StartTime
    /\ model_name = DEFAULT_MODEL
    /\ total_tokens_used = 0
    /\ total_queries = 0
    /\ api_key = FALSE
    /\ errors = {}
    /\ request = <<>>
    /\ last = [op |-> "start"]
    /\ handled = 0

\* the clock reaches the next second
Tick ==
    /\ clock < MaxClock
    /\ clock' = clock + 1
    /\ UNCHANGED <<messages, chat_sessions, current_session_id, model_name,
                   total_tokens_used, total_queries, api_key, files, errors,
                   request, last, saved, handled>>

\* a script run to line 588 of main(): the history of the current session
\* is read when none is in memory, then displayed
RunMain(key, msgs, fs, sid) ==
    LET r == LoadCurrent(key, msgs, fs, sid) IN
    /\ messages' = r.value
    /\ errors' = ErrorSet("load", r.error)

\* the key is typed into the sidebar (lines 424-430)
EnterApiKey ==
    /\ ~api_key
    /\ api_key' = TRUE
    /\ RunMain(TRUE, messages, files, current_session_id)
    /\ UNCHANGED <<last, chat_sessions, current_session_id, model_name,
                   total_tokens_used, total_queries, files, clock, request,
                   saved, handled>>

\* any other widget interaction (the settings tab, a browser reload of
\* the same session)
Rerender ==
    /\ RunMain(api_key, messages, files, current_session_id)
    /\ UNCHANGED <<last, chat_sessions, current_session_id, model_name,
                   total_tokens_used, total_queries, api_key, files, clock,
                   request, saved, handled>>

\* create_new_session (lines 279-284), then the run st.rerun() starts
create_new_session(fs) ==
    /\ current_session_id' = clock
    /\ chat_sessions' = get_chat_sessions(fs)
    /\ RunMain(api_key, <<>>, fs, clock)

\* "Start New Chat" (lines 460-461)
StartNewChat ==
    /\ create_new_session(files)
    /\ last' = [op |-> "new"]
    /\ UNCHANGED <<model_name, total_tokens_used, total_queries, api_key,
                   files, clock, request, saved, handled>>

\* a session button of the sidebar (lines 468-473): load_session, rerun
load_session(s) ==
    /\ s \in DOMAIN chat_sessions
    /\ current_session_id' = s
    /\ RunMain(api_key, load_chat_history(files, s).value, files, s)
    /\ last' = [op |-> "load", session |-> s]
    /\ UNCHANGED <<chat_sessions, model_name, total_tokens_used, total_queries,
                   api_key, files, clock, request, saved, handled>>

\* a delete button of the sidebar (lines 475-476): delete_session
delete_session(s) ==
    /\ s \in DOMAIN chat_sessions
    /\ IF files[s].exists
       THEN LET fs == [files EXCEPT ![s] = NoFile] IN
            /\ files' = fs
            /\ saved' = Without(saved, s)
            /\ last' = [op |-> "delete", session |-> s, failed |-> FALSE]
            /\ IF current_session_id = s
               THEN create_new_session(fs)
               ELSE /\ chat_sessions' = get_chat_sessions(fs)
                    /\ RunMain(api_key, messages, fs, current_session_id)
                    /\ UNCHANGED current_session_id
       ELSE \* os.remove raised: st.error, and the run goes on
            /\ LET r == LoadCurrent(api_key, messages, files, current_session_id) IN
               /\ messages' = r.value
               /\ errors' = {"delete"} \cup ErrorSet("load", r.error)
            /\ last' = [op |-> "delete", session |-> s, failed |-> TRUE]
            /\ UNCHANGED <<files, saved, chat_sessions, current_session_id>>
    /\ UNCHANGED <<model_name, total_tokens_used, total_queries, api_key,
                   clock, request, handled>>

\* a prompt is submitted in st.chat_input: main() from line 579 to line 624.
\* An exception leaving process_chat would end the script run at line 601.
SubmitPrompt(prompt, outcome, elapsed) ==
    /\ api_key
    /\ handled < MaxPrompts
    /\ LET shown == LoadCurrent(TRUE, messages, files, current_session_id)
           history == Append(shown.value, UserTurn(prompt))
           response_data == process_chat(prompt, history, outcome, elapsed)
           final == Append(history,
                       AssistantTurn(response_data.content,
                                     response_data.time_taken,
                                     response_data.tokens, clock, model_name))
           fs == save_chat_history(files, final, current_session_id, clock)
       IN  /\ request' = response_data.request
           /\ total_tokens_used' = total_tokens_used + response_data.tokens
           /\ total_queries' = total_queries + response_data.queries
           /\ errors' = ErrorSet("load", shown.error)
                        \cup ErrorSet("chat", response_data.error)
           /\ last' = [op |-> "prompt", prompt |-> prompt, before |-> messages,
                       outcome |-> outcome, session |-> current_session_id,
                       reported |-> response_data.error,
                       escaped |-> response_data.escaped]
           /\ IF response_data.escaped
              THEN /\ messages' = history
                   /\ UNCHANGED <<files, saved, chat_sessions>>
              ELSE /\ messages' = final
                   /\ files' = fs
                   /\ saved' = (current_session_id :> final) @@ saved
                   /\ chat_sessions' = get_chat_sessions(fs)
    /\ handled' = handled + 1
    /\ UNCHANGED <<current_session_id, model_name, api_key, clock>>

Next ==
    \/ Tick
    \/ EnterApiKey
    \/ Rerender
    \/ StartNewChat
    \/ \E s \in SessionIds : load_session(s)
    \/ \E s \in SessionIds : delete_session(s)
    \/ \E p \in Prompts, o \in Outcomes, e \in Elapsed : SubmitPrompt(p, o, e)

Spec == Init /\ [][Next]_vars

----------------------------------------------------------------------------
(* The persistence functions on their own: save_chat_history,              *)
(* load_chat_history and get_chat_sessions applied to files and turn       *)
(* lists drawn from bounded sets; handled counts the calls made.           *)

MaxCut == 2
MaxCalls == 2

IOLists == {SubSeq(OldTurns, 1, n) : n \in 0..Len(OldTurns)}

IOFiles ==
    {NoFile} \cup {OldFile(l, c) : l \in {<<>>, OldTurns}, c \in 0..MaxCut}

InitIO ==
    /\ \E f \in IOFiles :
        files = [s \in SessionIds |-> IF s = 0 THEN f ELSE NoFile]
    /\ saved = <<>>
    /\ messages = <<>>
    /\ chat_sessions = <<>>
    /\ clock = StartTime
    /\ current_session_id = StartTime
    /\ model_name = DEFAULT_MODEL
    /\ total_tokens_used = 0
    /\ total_queries = 0
    /\ api_key = FALSE
    /\ errors = {}
    /\ request = <<>>
    /\ last = [op |-> "start"]
    /\ handled = 0

IOSave(l, s) ==
    /\ handled < MaxCalls
    /\ handled' = handled + 1
    /\ files' = save_chat_history(files, l, s, clock)
    /\ saved' = (s :> l) @@ saved
    /\ errors' = {}
    /\ last' = [op |-> "saved", session |-> s]
    /\ UNCHANGED <<messages, chat_sessions, current_session_id, model_name,
                   total_tokens_used, total_queries, api_key, clock, request>>

IOLoad(s) ==
    /\ handled < MaxCalls
    /\ handled' = handled + 1
    /\ messages' = load_chat_history(files, s).value
    /\ errors' = ErrorSet("load", load_chat_history(files, s).error)
    /\ last' = [op |-> "loaded", session |-> s]
    /\ UNCHANGED <<chat_sessions, current_session_id, model_name,
                   total_tokens_used, total_queries, api_key, files, clock,
                   request, saved>>

IOList ==
    /\ handled < MaxCalls
    /\ handled' = handled + 1
    /\ chat_sessions' = get_chat_sessions(files)
    /\ errors' = {}
    /\ last' = [op |-> "listed"]
    /\ UNCHANGED <<messages, current_session_id, model_name,
                   total_tokens_used, total_queries, api_key, files, clock,
                   request, saved>>

NextIO ==
    \/ \E l \in IOLists, s \in SessionIds : IOSave(l, s)
    \/ \E s \in SessionIds : IOLoad(s)
    \/ IOList

SpecIO == InitIO /\ [][NextIO]_vars

----------------------------------------------------------------------------
(* Properties of the chat application.                                     *)

PromptHandled == last.op = "prompt"
CallFailed == PromptHandled /\ last.outcome.error # NoError
CallSucceeded == PromptHandled /\ last.outcome.error = NoError
Streamed == Concat(last.outcome.chunks)
LastTurn == messages[Len(messages)]
FileTurns(s) == json_load(files[s].content).val

Appended == SubSeq(messages, Len(last.before) + 1, Len(messages))
SystemMessage == [role |-> "system", content |-> SystemPrompt]
Missing(s) == ~files[s].exists
Corrupt(s) == files[s].exists /\ ~json_load(files[s].content).ok

\* C1 (as stated): after a prompt whose remote call failed, the turn list
\* is at most one turn longer than before the prompt was submitted.
C1_AtMostOneTurn ==
    CallFailed => Len(messages) <= Len(last.before) + 1

\* C1 (amended): after a prompt whose remote call failed, the turn list is
\* the list before the prompt followed by exactly two turns, the user turn
\* and one assistant turn whose content is the error text; nothing that
\* was streamed before the failure is in it.
C1_FailedCallAddsTwoTurns ==
    CallFailed =>
        /\ Len(messages) = Len(last.before) + 2
        /\ SubSeq(messages, 1, Len(last.before)) = last.before
        /\ Appended[1] = UserTurn(last.prompt)
        /\ Appended[2].role = "assistant"
        /\ Appended[2].content = ErrorText(last.outcome.error)

C1_Witness ==
    /\ CallFailed
    /\ last.outcome.chunks # <<>>
    /\ Len(last.before) >= 2

C5_SilentlyEmpty ==
    (last.op = "loaded" /\ (Missing(last.session) \/ Corrupt(last.session))) =>
        /\ messages = <<>>
        /\ errors = {}

\* C5 (amended): load_chat_history returns the empty list for a missing
\* and for a corrupt file; it is silent for a missing file and shows a
\* "Failed to load chat history" notification for a corrupt one; only
\* get_chat_sessions skips corrupt files without a notification.
C5_EmptyAndNotifiedWhenCorrupt ==
    /\ (last.op = "loaded" /\ Missing(last.session)) =>
            (messages = <<>> /\ errors = {})
    /\ (last.op = "loaded" /\ Corrupt(last.session)) =>
            (messages = <<>> /\ errors = {"load"})
    /\ last.op = "listed" =>
            /\ errors = {}
            /\ \A s \in SessionIds : Corrupt(s) => s \notin DOMAIN chat_sessions

C5_Witness ==
    /\ last.op = "loaded"
    /\ Corrupt(last.session)
    /\ Len(files[last.session].content) > 0

\* C6: after application start or "Start New Chat", and until a prompt is
\* submitted or a session is loaded, the current conversation has no turns.
C6_NewConversationEmpty ==
    last.op \in {"start", "new"} => messages = <<>>

\* C7: after load_session(s) the current session id is s and the turn list
\* in memory is the list last saved for s; a prompt handled afterwards
\* appends to that list and the file of s then holds the earlier turns
\* followed by the new ones.
C7_LoadRestoresSavedList ==
    /\ last.op = "load" =>
            /\ current_session_id = last.session
            /\ last.session \in DOMAIN saved
            /\ messages = saved[last.session]
    /\ PromptHandled =>
            /\ current_session_id = last.session
            /\ SubSeq(messages, 1, Len(last.before)) = last.before
            /\ Len(messages) = Len(last.before) + 2
            /\ FileTurns(last.session) = messages

C7_Witness ==
    /\ PromptHandled
    /\ last.session = 0
    /\ last.before = OldTurns

\* C8: a failure of the remote call does not leave process_chat as an
\* exception; it is reported with st.error, and every assistant turn added
\* for that prompt has the error text as its content, never the text that
\* was streamed before the failure.
C8_FailureCaughtAndReported ==
    CallFailed =>
        /\ ~last.escaped
        /\ last.reported
        /\ \A i \in 1..Len(Appended) :
              Appended[i].role = "assistant" =>
                  /\ Appended[i].content = ErrorText(last.outcome.error)
                  /\ Appended[i].content # Streamed

C8_Witness ==
    /\ CallFailed
    /\ Streamed # <<>>
    /\ Len(Appended) = 2

\* C9: the system instruction is the first message of every request and is
\* never a turn: every turn in memory, in every file the program wrote and
\* in the displayed transcript is a user or an assistant turn and does not
\* carry the system instruction.
ConversationTurns(msgs) ==
    \A i \in 1..Len(msgs) :
        /\ msgs[i].role \in {"user", "assistant"}
        /\ msgs[i].content # SystemPrompt

C9_SystemMessageNeverATurn ==
    /\ ConversationTurns(messages)
    /\ \A s \in DOMAIN saved : ConversationTurns(FileTurns(s))
    /\ \A i \in 1..Len(messages) :
          display_chat_history(messages)[i].text # SystemPrompt
    /\ request # <<>> =>
          /\ request[1] = SystemMessage
          /\ \A i \in 2..Len(request) : request[i].role # "system"

C9_Witness ==
    /\ PromptHandled
    /\ Len(request) > HistoryWindow
    /\ Len(messages) > HistoryWindow

\* C10: the request of a prompt is the system message, then the last (at
\* most 5) turns that precede the prompt, in order, then the prompt as the
\* final message, once; the request has at most 7 messages.
C10_RequestShape ==
    PromptHandled =>
        /\ request = << SystemMessage >>
                     \o ToLangchain(LastN(last.before, HistoryWindow))
                     \o << UserTurn(last.prompt) >>
        /\ Len(request) <= HistoryWindow + 2

Alternates(msgs) ==
    /\ Len(msgs) % 2 = 0
    /\ \A i \in 1..Len(msgs) :
          msgs[i].role = IF i % 2 = 1 THEN "user" ELSE "assistant"

IsPrefix(a, b) ==
    /\ Len(a) <= Len(b)
    /\ SubSeq(b, 1, Len(a)) = a

\* the file of the current session is removed by the step
CurrentDeleted ==
    /\ files[current_session_id].exists
    /\ ~files'[current_session_id].exists

\* C11: between script runs the turn list has even length and alternates
\* user, assistant, user, assistant, ... from a user turn; while the session
\* stays the same (same id, not deleted) a step only appends to the list:
\* the turns it had are kept, in place and unedited.
C11_AlternatesAndAppendOnly ==
    /\ [] Alternates(messages)
    /\ [][ (current_session_id' = current_session_id /\ ~CurrentDeleted)
             => IsPrefix(messages, messages') ]_vars

C11_Witness ==
    /\ handled = 2
    /\ PromptHandled
    /\ last.session = current_session_id
    /\ Len(last.before) >= 2
    /\ Len(messages) = Len(last.before) + 2

\* the step is a click on a delete button
DeleteStep == last' # last /\ last'.op = "delete"

OnlyFileRemoved(s) ==
    /\ ~files'[s].exists
    /\ \A t \in SessionIds \ {s} : files'[t] = files[t]

\* C12: deleting a session other than the current one removes the file of
\* that session only and leaves the current session id and the turn list
\* as they were; deleting the current session removes its file only and
\* leaves an empty turn list; a delete that fails changes neither the
\* current session id, the turn list, the session index nor any file.
C12_DeleteFrame ==
    [][ DeleteStep =>
          IF last'.failed
          THEN UNCHANGED <<current_session_id, messages, chat_sessions, files>>
          ELSE /\ OnlyFileRemoved(last'.session)
               /\ IF last'.session = current_session_id
                  THEN messages' = <<>>
                  ELSE UNCHANGED <<current_session_id, messages>> ]_vars

\* the step handles a prompt
PromptStep == handled' # handled

\* C13: the usage counters start at zero; a prompt whose remote call
\* completed adds one to total_queries and never lowers total_tokens_used;
\* a prompt whose call failed, and every other step (new session, load,
\* delete, any rerun), leaves both counters unchanged. So total_queries is
\* the number of successful calls so far and neither counter decreases.
C13_CountersCountSuccesses ==
    /\ total_queries = 0
    /\ total_tokens_used = 0
    /\ [][ IF PromptStep /\ last'.outcome.error = NoError
           THEN /\ total_queries' = total_queries + 1
                /\ total_tokens_used' >= total_tokens_used
           ELSE UNCHANGED <<total_queries, total_tokens_used>> ]_vars

C13_Witness ==
    /\ handled = 2
    /\ total_queries = 1
    /\ total_tokens_used > 0
    /\ last.op = "delete"
    /\ saved = <<>>

====
